---- MODULE Spec2Model ----
(***************************************************************************)
(* A model of ros2-create-release-branches.py: the one-shot script that    *)
(* creates the source branches of a new ROS 2 distribution and updates     *)
(* ros2.repos, distribution.yaml and each release repository's             *)
(* tracks.yaml.                                                            *)
(*                                                                         *)
(* Strings the script cuts or compares by prefix/suffix (URLs) are         *)
(* sequences of one-character strings; names that are only compared for    *)
(* equality (manifest keys, package keys, release names) are TLA+ strings. *)
(* Python's None is the empty tuple and a present value x is <<x>>.        *)
(* A YAML mapping whose order the script iterates (ros2.repos'             *)
(* repositories, distribution.yaml's repositories) is a sequence of        *)
(* records carrying their key in the field "name", keys pairwise distinct. *)
(***************************************************************************)
EXTENDS Integers, Sequences, FiniteSets, TLC

VARIABLES
    pc,                      \* position of main: the next statement to run
    release_name,            \* sys.argv[1]
    ros2_repos,              \* the in-memory ros2.repos document
    distribution_yaml,       \* the in-memory distribution.yaml document
    ros2_key_to_distro_key,  \* the cross-reference table
    warnings,                \* (manifest key, package key) pairs logged by the mapper
    idx,                     \* position of the for loop over ros2_repos
    branches,                \* remote branches pushed: <<clone url, branch name>>
    pushed_tracks,           \* tracks.yaml contents pushed, per repository and branch
    pushed_manifest,         \* ros2.repos contents pushed
    pushed_distribution,     \* distribution.yaml contents pushed
    pulls,                   \* pull requests opened
    acts,                    \* per manifest entry: the loop steps performed for it
    track_args,              \* per manifest entry: the URL given to update_tracks_yaml
    error,                   \* the uncaught exception, "" when none
    exit_code,               \* the process' exit status, -1 while running
    repos0,                  \* ros2.repos as downloaded
    dist0,                   \* distribution.yaml as downloaded
    url_kind, url_owner, url_repo, url_in, url_out,  \* github_name_from_url's driver
    upd_key, upd_n, upd_prev                         \* update_distribution_yaml's driver

vars == <<pc, release_name, ros2_repos, distribution_yaml, ros2_key_to_distro_key,
          warnings, idx, branches, pushed_tracks, pushed_manifest,
          pushed_distribution, pulls, acts, track_args, error, exit_code,
          repos0, dist0, url_kind, url_owner, url_repo, url_in, url_out,
          upd_key, upd_n, upd_prev>>

main_vars == <<pc, release_name, ros2_repos, distribution_yaml, ros2_key_to_distro_key,
               warnings, idx, branches, pushed_tracks, pushed_manifest,
               pushed_distribution, pulls, acts, track_args, error, exit_code,
               repos0, dist0>>

url_vars == <<url_kind, url_owner, url_repo, url_in, url_out>>

upd_vars == <<upd_key, upd_n, upd_prev>>

-----------------------------------------------------------------------------
(* Bounds of the model.                                                    *)

MaxRepos == 2       \* entries of ros2.repos
MaxPkgs == 2        \* packages of distribution.yaml
MaxNameLen == 5     \* characters of a repository name given to github_name_from_url

-----------------------------------------------------------------------------
(* Python values and string methods.                                       *)

None == << >>

Some(x) == <<x>>

\* str.startswith
StartsWith(s, p) == Len(s) >= Len(p) /\ SubSeq(s, 1, Len(p)) = p

\* str.endswith
EndsWith(s, p) == Len(s) >= Len(p) /\ SubSeq(s, Len(s) - Len(p) + 1, Len(s)) = p

\* str.removesuffix
RemoveSuffix(s, p) ==
    IF p # << >> /\ EndsWith(s, p) THEN SubSeq(s, 1, Len(s) - Len(p)) ELSE s

\* str.removeprefix
RemovePrefix(s, p) ==
    IF p # << >> /\ StartsWith(s, p) THEN SubSeq(s, Len(p) + 1, Len(s)) ELSE s

\* str.rstrip(chars): drops every trailing character that is in chars
RECURSIVE RStrip(_, _)
RStrip(s, chars) ==
    IF s # << >> /\ s[Len(s)] \in chars THEN RStrip(SubSeq(s, 1, Len(s) - 1), chars) ELSE s

GITHUB_PREFIX ==
    <<"h","t","t","p","s",":","/","/","g","i","t","h","u","b",".","c","o","m","/">>

DOT_GIT == <<".","g","i","t">>

ROS2_REPOS_URL == GITHUB_PREFIX \o <<"c","l","a","l","a","n","c","e","t","t","e","/","r","o","s","2">>

ROSDISTRO_URL ==
    GITHUB_PREFIX \o <<"c","l","a","l","a","n","c","e","t","t","e","/","m","y","r","o","s","d","i","s","t","r","o">>

\* The classic slip: rstrip('.git') in place of removesuffix('.git').
github_name_from_url_rstrip(url) ==
    IF ~StartsWith(url, GITHUB_PREFIX)
    THEN [raised |-> TRUE, value |-> << >>]
    ELSE [raised |-> FALSE,
          value |-> RemovePrefix(RStrip(url, {".", "g", "i", "t"}), GITHUB_PREFIX)]

\* github_name_from_url: raises unless url starts with the prefix; otherwise
\* url.removesuffix('.git').removeprefix('https://github.com/').
github_name_from_url(url) ==
    IF ~StartsWith(url, GITHUB_PREFIX)
    THEN [raised |-> TRUE, value |-> << >>]
    ELSE [raised |-> FALSE,
          value |-> RemovePrefix(RemoveSuffix(url, DOT_GIT), GITHUB_PREFIX)]

-----------------------------------------------------------------------------
(* The documents main downloads: the inputs of a run.                      *)

UrlA == GITHUB_PREFIX \o <<"o","r","g","/","p","k","g","A">>

UrlAgit == UrlA \o DOT_GIT

UrlB == GITHUB_PREFIX \o <<"o","r","g","/","p","k","g","B">>

UrlU == GITHUB_PREFIX \o <<"r","o","s","/","u","r","d","f","d","o","m">>

RelA ==
    GITHUB_PREFIX \o <<"o","r","g","-","r","e","l","e","a","s","e","/",
                       "p","k","g","A","-","r","e","l","e","a","s","e">>

ReleaseNames == {"kappa", "jazzy"}

\* One entry of ros2.repos' repositories: its key and its {url, version}.
RepoEntry(n, u) == [name |-> n, url |-> u, version |-> "rolling"]

RepoPool ==
    { RepoEntry("pkgA", UrlA), RepoEntry("pkgA", UrlAgit),
      RepoEntry("pkgB", UrlB), RepoEntry("ros/urdfdom", UrlU) }

\* A doc, source or release sub-record of a package.
Sub(u) == Some([url |-> u, version |-> "rolling"])

\* The doc/source combinations a package is drawn from: neither, doc only,
\* source only, both equal, equal up to a trailing .git, and different.
PkgShapes ==
    { <<None, None>>, <<Sub(UrlA), None>>, <<None, Sub(UrlA)>>,
      <<Sub(UrlA), Sub(UrlA)>>, <<Sub(UrlA), Sub(UrlAgit)>>,
      <<Sub(UrlB), Sub(UrlA)>>, <<Sub(UrlB), Sub(UrlB)>> }

PkgReleases == { None, Sub(RelA) }

\* Package keys of distribution.yaml, in key order.
PkgNames == <<"pkgA-distro", "pkgB-distro", "pkgC-distro", "pkgD-distro">>

RECURSIVE SeqsUpTo(_, _)
SeqsUpTo(S, n) ==
    IF n = 0 THEN { << >> }
    ELSE LET prev == SeqsUpTo(S, n - 1)
         IN  prev \cup { Append(s, x) : s \in { t \in prev : Len(t) = n - 1 }, x \in S }

DistinctNames(s) == \A i, j \in 1..Len(s) : i # j => s[i].name # s[j].name

\* ros2.repos documents: up to MaxRepos entries with distinct keys, in any order.
Manifests == { m \in SeqsUpTo(RepoPool, MaxRepos) : DistinctNames(m) }

\* distribution.yaml documents: up to MaxPkgs packages.
Distributions ==
    { [j \in 1..Len(s) |->
          [name |-> PkgNames[j], doc |-> s[j][1][1], source |-> s[j][1][2],
           release |-> s[j][2]]] :
      s \in SeqsUpTo(PkgShapes \X PkgReleases, MaxPkgs) }

\* tracks.yaml of a release repository: track name -> devel_branch.
TracksFiles == { [t \in S |-> "rolling"] : S \in SUBSET ReleaseNames }

Names(doc) == { doc[i].name : i \in 1..Len(doc) }

IndexOf(doc, n) == CHOOSE i \in 1..Len(doc) : doc[i].name = n

-----------------------------------------------------------------------------
(* map_ros2_repos_to_distribution_yaml                                     *)

\* What one pass of the inner loop does with a package: "continue" (no
\* match), "warn" (logged and skipped) or "match" (recorded, then break).
PkgOutcome(ros2_url, distro_info) ==
    LET doc_url ==
            IF distro_info.doc # None
               /\ RemoveSuffix(distro_info.doc[1].url, DOT_GIT) = ros2_url
            THEN Some(distro_info.doc[1].url) ELSE None
        source_url ==
            IF distro_info.source # None
               /\ RemoveSuffix(distro_info.source[1].url, DOT_GIT) = ros2_url
            THEN Some(distro_info.source[1].url) ELSE None
    IN  IF doc_url = None /\ source_url = None THEN "continue"
        ELSE IF doc_url # source_url THEN "warn"
        ELSE "match"

\* The inner loop from package j on: the index it breaks at, or None.
RECURSIVE ScanFrom(_, _, _)
ScanFrom(ros2_url, dist, j) ==
    IF j > Len(dist) THEN None
    ELSE IF PkgOutcome(ros2_url, dist[j]) = "match" THEN Some(j)
    ELSE ScanFrom(ros2_url, dist, j + 1)

Ros2Url(repo_info) == RemoveSuffix(repo_info.url, DOT_GIT)

\* The returned table: manifest key -> <<package key, release url or None>>.
map_ros2_repos_to_distribution_yaml(repos, dist) ==
    LET hit(i) == ScanFrom(Ros2Url(repos[i]), dist, 1)
        matched == { i \in 1..Len(repos) : hit(i) # None }
    IN  [n \in { repos[i].name : i \in matched } |->
            LET j == hit(IndexOf(repos, n))[1]
            IN  <<dist[j].name,
                  IF dist[j].release # None THEN Some(dist[j].release[1].url) ELSE None>>]

\* The warnings the mapper logs: the packages the inner loop skipped.
map_warnings(repos, dist) ==
    { <<repos[i].name, dist[k].name>> :
        <<i, k>> \in { p \in (1..Len(repos)) \X (1..Len(dist)) :
                        /\ PkgOutcome(Ros2Url(repos[p[1]]), dist[p[2]]) = "warn"
                        /\ LET h == ScanFrom(Ros2Url(repos[p[1]]), dist, 1)
                           IN  h = None \/ p[2] < h[1] } }

-----------------------------------------------------------------------------
(* update_distribution_yaml                                                *)

SetVersion(sub, v) == IF sub = None THEN None ELSE Some([sub[1] EXCEPT !.version = v])

\* A slip that stamps every sub-record of the package, release included.
update_distribution_yaml_all(dist, distro_key_name, rel) ==
    [j \in 1..Len(dist) |->
        IF dist[j].name = distro_key_name
        THEN [dist[j] EXCEPT !.doc = SetVersion(@, rel), !.source = SetVersion(@, rel),
                             !.release = SetVersion(@, rel)]
        ELSE dist[j]]

update_distribution_yaml(dist, distro_key_name, rel) ==
    [j \in 1..Len(dist) |->
        IF dist[j].name = distro_key_name
        THEN [dist[j] EXCEPT !.doc = SetVersion(@, rel), !.source = SetVersion(@, rel)]
        ELSE dist[j]]

-----------------------------------------------------------------------------
(* yaml.dump: PyYAML writes a mapping with its keys sorted.                *)

KeyOrder ==
    <<"pkgA", "pkgA-distro", "pkgB", "pkgB-distro", "pkgC-distro", "pkgD-distro",
      "ros/urdfdom">>

Rank(n) == CHOOSE r \in 1..Len(KeyOrder) : KeyOrder[r] = n

yaml_dump(doc) ==
    [k \in 1..Len(doc) |->
        doc[CHOOSE i \in 1..Len(doc) :
                Cardinality({ j \in 1..Len(doc) : Rank(doc[j].name) < Rank(doc[i].name) })
                    = k - 1]]

\* The document as a mapping: what a reader of the YAML gets.
AsMapping(doc) == [n \in Names(doc) |-> doc[IndexOf(doc, n)]]

-----------------------------------------------------------------------------
(* main                                                                    *)

SKIPLIST ==
    { "eProsima/Fast-CDR", "eProsima/Fast-DDS", "eProsima/foonathan_memory_vendor",
      "eclipse-cyclonedds/cyclonedds", "eclipse-iceoryx/iceoryx", "osrf/osrf_pycommon",
      "ros/urdfdom", "ros/urdfdom_headers" }

\* A slip that never skips.
InSkiplist_never(name) == FALSE

\* `if name in SKIPLIST`
InSkiplist(name) == name \in SKIPLIST

\* A handler that logs the exception and goes on to the publish steps.
Raise_and_go_on(kind) ==
    /\ pc' = "ros2_repos_push"
    /\ error' = kind
    /\ exit_code' = exit_code

\* An exception nothing catches: the run ends there with a non-zero status.
Raise(kind) ==
    /\ pc' = "failed"
    /\ error' = kind
    /\ exit_code' = 1

\* A slip that pushes the checked-out baseline instead of the new head.
pushed_source_branch_rolling(url, rel) == <<url, <<"rolling">>>>

\* The branch create_source_branch pushes: release_name, on the cloned URL.
pushed_source_branch(url, rel) == <<url, <<rel>>>>

\* A slip that writes the version under the wrong entry (the first one).
set_version_first(repos, i, rel) == [repos EXCEPT ![1].version = rel]

\* `repo_info['version'] = release_name`
set_version(repos, i, rel) == [repos EXCEPT ![i].version = rel]

\* f'{release_name}/update-devel-branch', f'{release_name}-initial-branches',
\* f'{release_name}-update': the release name followed by a fixed suffix.
TracksBranch(rel) == <<rel, "/update-devel-branch">>

ManifestBranch(rel) == <<rel, "-initial-branches">>

DistributionBranch(rel) == <<rel, "-update">>

\* The four lines written before the dumped distribution.yaml.
DISTRIBUTION_HEADER ==
    <<"%YAML 1.1", "# ROS distribution file",
      "# see REP 143: http://ros.org/reps/rep-0143.html", "---">>

\* Before main runs: nothing downloaded, nothing pushed.
MainInit ==
    /\ pc = "start"
    /\ release_name = ""
    /\ ros2_repos = << >>
    /\ distribution_yaml = << >>
    /\ ros2_key_to_distro_key = << >>
    /\ warnings = {}
    /\ idx = 0
    /\ branches = {}
    /\ pushed_tracks = {}
    /\ pushed_manifest = {}
    /\ pushed_distribution = {}
    /\ pulls = {}
    /\ acts = {}
    /\ track_args = {}
    /\ error = ""
    /\ exit_code = -1
    /\ repos0 = << >>
    /\ dist0 = << >>

UrlIdle ==
    /\ url_kind = "" /\ url_owner = << >> /\ url_repo = << >>
    /\ url_in = << >> /\ url_out = None

UpdIdle == upd_key = "" /\ upd_n = 0 /\ upd_prev = << >>

Init == MainInit /\ UrlIdle /\ UpdIdle

\* main, lines 254-264: the argument count, the release name, the API key.
main_start ==
    /\ pc = "start"
    /\ \E argc \in {1, 2, 3}, rel \in ReleaseNames, key \in BOOLEAN :
          IF argc # 2
          THEN /\ pc' = "done"
               /\ exit_code' = 1
               /\ UNCHANGED <<release_name, error>>
          ELSE IF ~key
          THEN /\ Raise("RuntimeError")
               /\ release_name' = rel
          ELSE /\ pc' = "download_ros2_repos"
               /\ release_name' = rel
               /\ UNCHANGED <<error, exit_code>>
    /\ UNCHANGED <<ros2_repos, distribution_yaml, ros2_key_to_distro_key, warnings, idx,
                   branches, pushed_tracks, pushed_manifest, pushed_distribution, pulls,
                   acts, track_args, repos0, dist0, url_vars, upd_vars>>

\* download_ros2_repos: the GET fails, or the parsed document is returned.
download_ros2_repos ==
    /\ pc = "download_ros2_repos"
    /\ \/ /\ Raise("FetchError")
          /\ UNCHANGED <<ros2_repos, repos0>>
       \/ /\ \E m \in Manifests : ros2_repos' = m /\ repos0' = m
          /\ pc' = "download_distribution_yaml"
          /\ UNCHANGED <<error, exit_code>>
    /\ UNCHANGED <<release_name, distribution_yaml, ros2_key_to_distro_key, warnings, idx,
                   branches, pushed_tracks, pushed_manifest, pushed_distribution, pulls,
                   acts, track_args, dist0, url_vars, upd_vars>>

\* download_distribution_yaml
download_distribution_yaml ==
    /\ pc = "download_distribution_yaml"
    /\ \/ /\ Raise("FetchError")
          /\ UNCHANGED <<distribution_yaml, dist0>>
       \/ /\ \E d \in Distributions : distribution_yaml' = d /\ dist0' = d
          /\ pc' = "map"
          /\ UNCHANGED <<error, exit_code>>
    /\ UNCHANGED <<release_name, ros2_repos, ros2_key_to_distro_key, warnings, idx,
                   branches, pushed_tracks, pushed_manifest, pushed_distribution, pulls,
                   acts, track_args, repos0, url_vars, upd_vars>>

\* line 272: the cross-reference table is built; the for loop starts.
build_map ==
    /\ pc = "map"
    /\ ros2_key_to_distro_key' =
          map_ros2_repos_to_distribution_yaml(ros2_repos, distribution_yaml)
    /\ warnings' = map_warnings(ros2_repos, distribution_yaml)
    /\ idx' = 1
    /\ pc' = "loop"
    /\ UNCHANGED <<release_name, ros2_repos, distribution_yaml, branches, pushed_tracks,
                   pushed_manifest, pushed_distribution, pulls, acts, track_args, error,
                   exit_code, repos0, dist0, url_vars, upd_vars>>

\* line 283: the loop is exhausted.
for_exit ==
    /\ pc = "loop"
    /\ idx > Len(ros2_repos)
    /\ pc' = "ros2_repos_push"
    /\ UNCHANGED <<release_name, ros2_repos, distribution_yaml, ros2_key_to_distro_key,
                   warnings, idx, branches, pushed_tracks, pushed_manifest,
                   pushed_distribution, pulls, acts, track_args, error, exit_code,
                   repos0, dist0, url_vars, upd_vars>>

\* lines 284-285: an entry of the skip-list is passed over.
for_skip ==
    /\ pc = "loop"
    /\ idx <= Len(ros2_repos)
    /\ InSkiplist(ros2_repos[idx].name)
    /\ idx' = idx + 1
    /\ UNCHANGED <<pc, release_name, ros2_repos, distribution_yaml, ros2_key_to_distro_key,
                   warnings, branches, pushed_tracks, pushed_manifest,
                   pushed_distribution, pulls, acts, track_args, error, exit_code,
                   repos0, dist0, url_vars, upd_vars>>

\* lines 283-284: any other entry enters the loop body.
for_enter ==
    /\ pc = "loop"
    /\ idx <= Len(ros2_repos)
    /\ ~InSkiplist(ros2_repos[idx].name)
    /\ pc' = "step1"
    /\ UNCHANGED <<release_name, ros2_repos, distribution_yaml, ros2_key_to_distro_key,
                   warnings, idx, branches, pushed_tracks, pushed_manifest,
                   pushed_distribution, pulls, acts, track_args, error, exit_code,
                   repos0, dist0, url_vars, upd_vars>>

\* Step 1, create_source_branch: clone, checkout or push fails and nothing is
\* pushed, or the branch release_name is pushed to the entry's URL.
step1_create_source_branch ==
    /\ pc = "step1"
    /\ \/ /\ Raise("GitCommandError")
          /\ UNCHANGED <<branches, acts>>
       \/ /\ branches' = branches \cup
                           { pushed_source_branch(ros2_repos[idx].url, release_name) }
          /\ acts' = acts \cup { <<ros2_repos[idx].name, "branch">> }
          /\ pc' = "step2"
          /\ UNCHANGED <<error, exit_code>>
    /\ UNCHANGED <<release_name, ros2_repos, distribution_yaml, ros2_key_to_distro_key,
                   warnings, idx, pushed_tracks, pushed_manifest, pushed_distribution,
                   pulls, track_args, repos0, dist0, url_vars, upd_vars>>

\* Step 2: the entry's version becomes the release name.
step2_set_version ==
    /\ pc = "step2"
    /\ ros2_repos' = set_version(ros2_repos, idx, release_name)
    /\ acts' = acts \cup { <<ros2_repos[idx].name, "version">> }
    /\ pc' = "step3"
    /\ UNCHANGED <<release_name, distribution_yaml, ros2_key_to_distro_key, warnings, idx,
                   branches, pushed_tracks, pushed_manifest, pushed_distribution, pulls,
                   track_args, error, exit_code, repos0, dist0, url_vars, upd_vars>>

\* Step 3: ros2_key_to_distro_key[name] raises KeyError for an entry the mapper
\* did not record; otherwise update_distribution_yaml stamps the package.
step3_update_distribution ==
    /\ pc = "step3"
    /\ LET name == ros2_repos[idx].name
       IN  IF name \notin DOMAIN ros2_key_to_distro_key
           THEN /\ Raise("KeyError: ros2_key_to_distro_key[name]")
                /\ UNCHANGED <<distribution_yaml, acts>>
           ELSE /\ distribution_yaml' =
                      update_distribution_yaml(distribution_yaml,
                                               ros2_key_to_distro_key[name][1],
                                               release_name)
                /\ acts' = acts \cup { <<name, "distribution">> }
                /\ pc' = "step4_push"
                /\ UNCHANGED <<error, exit_code>>
    /\ UNCHANGED <<release_name, ros2_repos, ros2_key_to_distro_key, warnings, idx,
                   branches, pushed_tracks, pushed_manifest, pushed_distribution, pulls,
                   track_args, repos0, dist0, url_vars, upd_vars>>

\* Step 4, update_tracks_yaml up to its push (lines 167-185): called with the
\* table's release URL, which may be None.  The clone (of None, or of a URL
\* that fails) raises; a tracks.yaml without the release's track raises;
\* otherwise the edited tracks.yaml is pushed on <release>/update-devel-branch.
step4_update_tracks_push ==
    /\ pc = "step4_push"
    /\ LET name == ros2_repos[idx].name
           distro_release_url == ros2_key_to_distro_key[name][2]
       IN  /\ track_args' = track_args \cup { <<name, distro_release_url>> }
           /\ IF distro_release_url = None
              THEN /\ Raise("GitCommandError")
                   /\ UNCHANGED <<branches, pushed_tracks, acts>>
              ELSE \/ /\ Raise("GitCommandError")
                      /\ UNCHANGED <<branches, pushed_tracks, acts>>
                   \/ \E local_tracks_yaml \in TracksFiles :
                        IF release_name \notin DOMAIN local_tracks_yaml
                        THEN /\ Raise("KeyError: tracks[release_name]")
                             /\ UNCHANGED <<branches, pushed_tracks, acts>>
                        ELSE /\ branches' = branches \cup
                                   { <<distro_release_url[1], TracksBranch(release_name)>> }
                             /\ pushed_tracks' = pushed_tracks \cup
                                   { [repo |-> distro_release_url[1],
                                      branch |-> TracksBranch(release_name),
                                      tracks |-> [local_tracks_yaml
                                                    EXCEPT ![release_name] = release_name]] }
                             /\ acts' = acts \cup { <<name, "tracks_push">> }
                             /\ pc' = "step4_pull"
                             /\ UNCHANGED <<error, exit_code>>
    /\ UNCHANGED <<release_name, ros2_repos, distribution_yaml, ros2_key_to_distro_key,
                   warnings, idx, pushed_manifest, pushed_distribution, pulls,
                   repos0, dist0, url_vars, upd_vars>>

\* Step 4, the rest of update_tracks_yaml (lines 187-193): the repository's
\* short name, then the pull request onto master; the loop goes on.
step4_update_tracks_pull ==
    /\ pc = "step4_pull"
    /\ LET name == ros2_repos[idx].name
           distro_release_url == ros2_key_to_distro_key[name][2][1]
           github_repo_name == github_name_from_url(distro_release_url)
       IN  IF github_repo_name.raised
           THEN /\ Raise("Exception")
                /\ UNCHANGED <<pulls, acts, idx>>
           ELSE \/ /\ Raise("GithubException")
                   /\ UNCHANGED <<pulls, acts, idx>>
                \/ /\ pulls' = pulls \cup
                         { [repo |-> github_repo_name.value,
                            head |-> TracksBranch(release_name),
                            base |-> <<"master">>,
                            title |-> <<"Update ", release_name, " devel branch">>] }
                   /\ acts' = acts \cup { <<name, "tracks_pull">> }
                   /\ idx' = idx + 1
                   /\ pc' = "loop"
                   /\ UNCHANGED <<error, exit_code>>
    /\ UNCHANGED <<release_name, ros2_repos, distribution_yaml, ros2_key_to_distro_key,
                   warnings, branches, pushed_tracks, pushed_manifest,
                   pushed_distribution, track_args, repos0, dist0, url_vars, upd_vars>>

\* ros2_repos_open_pr up to its second push (lines 196-215): nothing is pushed,
\* or only the release branch, or the release branch and then the branch
\* <release>-initial-branches carrying the dumped ros2.repos.
ros2_repos_push ==
    /\ pc = "ros2_repos_push"
    /\ \/ /\ Raise("GitCommandError")
          /\ UNCHANGED <<branches, pushed_manifest>>
       \/ /\ branches' = branches \cup { <<ROS2_REPOS_URL, <<release_name>>>> }
          /\ Raise("GitCommandError")
          /\ UNCHANGED pushed_manifest
       \/ /\ branches' = branches \cup { <<ROS2_REPOS_URL, <<release_name>>>>,
                                         <<ROS2_REPOS_URL, ManifestBranch(release_name)>> }
          /\ pushed_manifest' = pushed_manifest \cup
                { [repo |-> ROS2_REPOS_URL, branch |-> ManifestBranch(release_name),
                   path |-> "ros2.repos", content |-> yaml_dump(ros2_repos)] }
          /\ pc' = "ros2_repos_pull"
          /\ UNCHANGED <<error, exit_code>>
    /\ UNCHANGED <<release_name, ros2_repos, distribution_yaml, ros2_key_to_distro_key,
                   warnings, idx, pushed_tracks, pushed_distribution, pulls, acts,
                   track_args, repos0, dist0, url_vars, upd_vars>>

\* ros2_repos_open_pr, lines 218-223: the pull request onto the release branch.
ros2_repos_pull ==
    /\ pc = "ros2_repos_pull"
    /\ LET ros2_repos_github_repo_name == github_name_from_url(ROS2_REPOS_URL)
       IN  IF ros2_repos_github_repo_name.raised
           THEN /\ Raise("Exception")
                /\ UNCHANGED pulls
           ELSE \/ /\ Raise("GithubException")
                   /\ UNCHANGED pulls
                \/ /\ pulls' = pulls \cup
                         { [repo |-> ros2_repos_github_repo_name.value,
                            head |-> ManifestBranch(release_name),
                            base |-> <<release_name>>,
                            title |-> <<"Update ", release_name, " source branches">>] }
                   /\ pc' = "distribution_push"
                   /\ UNCHANGED <<error, exit_code>>
    /\ UNCHANGED <<release_name, ros2_repos, distribution_yaml, ros2_key_to_distro_key,
                   warnings, idx, branches, pushed_tracks, pushed_manifest,
                   pushed_distribution, acts, track_args, repos0, dist0, url_vars,
                   upd_vars>>

\* distribution_yaml_open_pr up to its push (lines 226-242): the header and the
\* dumped distribution.yaml go to <release>/distribution.yaml on <release>-update.
distribution_push ==
    /\ pc = "distribution_push"
    /\ \/ /\ \E kind \in {"GitCommandError", "FileNotFoundError"} : Raise(kind)
          /\ UNCHANGED <<branches, pushed_distribution>>
       \/ /\ branches' = branches \cup
                { <<ROSDISTRO_URL, DistributionBranch(release_name)>> }
          /\ pushed_distribution' = pushed_distribution \cup
                { [repo |-> ROSDISTRO_URL, branch |-> DistributionBranch(release_name),
                   path |-> <<release_name, "distribution.yaml">>,
                   header |-> DISTRIBUTION_HEADER,
                   content |-> yaml_dump(distribution_yaml)] }
          /\ pc' = "distribution_pull"
          /\ UNCHANGED <<error, exit_code>>
    /\ UNCHANGED <<release_name, ros2_repos, distribution_yaml, ros2_key_to_distro_key,
                   warnings, idx, pushed_tracks, pushed_manifest, pulls, acts,
                   track_args, repos0, dist0, url_vars, upd_vars>>

\* distribution_yaml_open_pr, lines 245-251, and main's `return 0`.
distribution_pull ==
    /\ pc = "distribution_pull"
    /\ LET rosdistro_repo_name == github_name_from_url(ROSDISTRO_URL)
       IN  IF rosdistro_repo_name.raised
           THEN /\ Raise("Exception")
                /\ UNCHANGED pulls
           ELSE \/ /\ Raise("GithubException")
                   /\ UNCHANGED pulls
                \/ /\ pulls' = pulls \cup
                         { [repo |-> rosdistro_repo_name.value,
                            head |-> DistributionBranch(release_name),
                            base |-> <<"master">>,
                            title |-> <<"Update ", release_name, "">>] }
                   /\ pc' = "done"
                   /\ exit_code' = 0
                   /\ UNCHANGED error
    /\ UNCHANGED <<release_name, ros2_repos, distribution_yaml, ros2_key_to_distro_key,
                   warnings, idx, branches, pushed_tracks, pushed_manifest,
                   pushed_distribution, acts, track_args, repos0, dist0, url_vars,
                   upd_vars>>

Next ==
    \/ main_start
    \/ download_ros2_repos
    \/ download_distribution_yaml
    \/ build_map
    \/ for_exit
    \/ for_skip
    \/ for_enter
    \/ step1_create_source_branch
    \/ step2_set_version
    \/ step3_update_distribution
    \/ step4_update_tracks_push
    \/ step4_update_tracks_pull
    \/ ros2_repos_push
    \/ ros2_repos_pull
    \/ distribution_push
    \/ distribution_pull

Spec == Init /\ [][Next]_vars

-----------------------------------------------------------------------------
(* github_name_from_url on its own: every URL of the two GitHub forms, and *)
(* URLs that do not start with the prefix.                                 *)

NameChars == {"a", ".", "g", "i", "t"}

RepoNames == SeqsUpTo(NameChars, MaxNameLen)

Owners == { <<"A">>, <<"a", ".", "g">> }

\* GITHUB_PREFIX cut short, with one character changed, or not at the start.
BadUrls ==
    LET tails == { << >>, <<"A", "/", "a">>, <<"A", "/", "a">> \o DOT_GIT }
        n == Len(GITHUB_PREFIX)
    IN  { SubSeq(GITHUB_PREFIX, 1, k) \o t : k \in 0..(n - 1), t \in tails }
        \cup { [GITHUB_PREFIX EXCEPT ![k] = "x"] \o t : k \in 1..n, t \in tails }
        \cup { <<"x">> \o GITHUB_PREFIX \o t : t \in tails }
        \cup { SubSeq(GITHUB_PREFIX, 2, n) \o t : t \in tails }

InitUrl ==
    /\ MainInit /\ UpdIdle
    /\ url_out = None
    /\ \/ /\ url_kind = "git"
          /\ url_owner \in Owners /\ url_repo \in RepoNames
          /\ url_in = GITHUB_PREFIX \o url_owner \o <<"/">> \o url_repo \o DOT_GIT
       \/ /\ url_kind = "plain"
          /\ url_owner \in Owners /\ url_repo \in RepoNames
          /\ url_in = GITHUB_PREFIX \o url_owner \o <<"/">> \o url_repo
       \/ /\ url_kind = "bad"
          /\ url_owner = << >> /\ url_repo = << >>
          /\ url_in \in BadUrls

call_github_name_from_url ==
    /\ url_out = None
    /\ url_out' = Some(github_name_from_url(url_in))
    /\ UNCHANGED <<main_vars, upd_vars, url_kind, url_owner, url_repo, url_in>>

NextUrl == call_github_name_from_url

SpecUrl == InitUrl /\ [][NextUrl]_vars

-----------------------------------------------------------------------------
(* update_distribution_yaml on its own: called twice with the same         *)
(* arguments on every document, key and release name.                      *)

Versions == {"rolling"} \cup ReleaseNames

WithVersion(dist, v) ==
    [j \in 1..Len(dist) |->
        [dist[j] EXCEPT !.doc = SetVersion(@, v), !.source = SetVersion(@, v),
                        !.release = SetVersion(@, v)]]

InitUpd ==
    /\ pc = "start" /\ ros2_repos = << >> /\ ros2_key_to_distro_key = << >>
    /\ warnings = {} /\ idx = 0 /\ branches = {} /\ pushed_tracks = {}
    /\ pushed_manifest = {} /\ pushed_distribution = {} /\ pulls = {} /\ acts = {}
    /\ track_args = {} /\ error = "" /\ exit_code = -1 /\ repos0 = << >>
    /\ UrlIdle
    /\ release_name \in ReleaseNames
    /\ \E d \in Distributions \ { << >> }, v \in Versions :
          /\ distribution_yaml = WithVersion(d, v)
          /\ dist0 = WithVersion(d, v)
          /\ upd_prev = WithVersion(d, v)
    /\ upd_key \in Names(distribution_yaml)
    /\ upd_n = 0

call_update_distribution_yaml ==
    /\ upd_n < 2
    /\ upd_prev' = distribution_yaml
    /\ distribution_yaml' = update_distribution_yaml(distribution_yaml, upd_key, release_name)
    /\ upd_n' = upd_n + 1
    /\ UNCHANGED <<pc, release_name, ros2_repos, ros2_key_to_distro_key, warnings, idx,
                   branches, pushed_tracks, pushed_manifest, pushed_distribution, pulls,
                   acts, track_args, error, exit_code, repos0, dist0, url_vars, upd_key>>

NextUpd == call_update_distribution_yaml

SpecUpd == InitUpd /\ [][NextUpd]_vars

-----------------------------------------------------------------------------
(* Vocabulary of the properties.                                           *)

KeyErrorTable == "KeyError: ros2_key_to_distro_key[name]"

\* Failures of the environment: a missing key, a failed GET, git, the hosting
\* API, a missing directory or a tracks.yaml without the release's track.
EnvironmentErrors ==
    { "RuntimeError", "FetchError", "GitCommandError", "GithubException",
      "FileNotFoundError", "KeyError: tracks[release_name]" }

Terminated == pc \in {"done", "failed"}

\* The table has been built (the for loop has started).
TableBuilt == idx >= 1

\* main is at, or past, the manifest publish step.
AtPublish ==
    \/ pc \in {"ros2_repos_push", "ros2_repos_pull", "distribution_push", "distribution_pull"}
    \/ pc = "done" /\ exit_code = 0

Stripped(u) == RemoveSuffix(u, DOT_GIT)

\* The package's doc.url or source.url, .git stripped, is the entry's URL, .git stripped.
UrlMatches(entry, pkg) ==
    \/ pkg.doc # None /\ Stripped(pkg.doc[1].url) = Stripped(entry.url)
    \/ pkg.source # None /\ Stripped(pkg.source[1].url) = Stripped(entry.url)

\* The package has both doc and source, and their URLs differ.
Disagree(pkg) ==
    pkg.doc # None /\ pkg.source # None /\ pkg.doc[1].url # pkg.source[1].url

ReleaseOf(pkg) == IF pkg.release # None THEN Some(pkg.release[1].url) ELSE None

LoopSteps == {"branch", "version", "distribution", "tracks_push", "tracks_pull"}

OrgReleasePkgA == RemovePrefix(RelA, GITHUB_PREFIX)

-----------------------------------------------------------------------------
(* C1. End-to-end scenario: manifest {pkgA: url https://github.com/org/pkgA}, *)
(* distribution {pkgA-distro: source with that url, release with url          *)
(* https://github.com/org-release/pkgA-release, no doc}, release kappa.  A    *)
(* run that the environment does not fail creates branch kappa on org/pkgA,   *)
(* sets the manifest's pkgA.version and the distribution's                    *)
(* pkgA-distro.source.version to kappa, and opens a pull request against      *)
(* org-release/pkgA-release whose tracks.yaml has tracks.kappa.devel_branch   *)
(* = kappa.                                                                   *)

C1_Scenario ==
    /\ release_name = "kappa"
    /\ repos0 = << RepoEntry("pkgA", UrlA) >>
    /\ dist0 = << [name |-> "pkgA-distro", doc |-> None, source |-> Sub(UrlA),
                   release |-> Sub(RelA)] >>

C1_EndToEnd ==
    (C1_Scenario /\ Terminated /\ error \notin EnvironmentErrors) =>
        /\ <<UrlA, <<"kappa">>>> \in branches
        /\ ros2_repos[1].version = "kappa"
        /\ distribution_yaml[1].source[1].version = "kappa"
        /\ \E t \in pushed_tracks :
              /\ t.repo = RelA
              /\ t.tracks["kappa"] = "kappa"
              /\ \E pr \in pulls : pr.repo = OrgReleasePkgA /\ pr.head = t.branch

-----------------------------------------------------------------------------
(* C2. Skip-list enforcement: for a manifest entry whose name is in the    *)
(* skip-list no loop step is ever performed: no source branch, no version  *)
(* update (the entry stays as downloaded), no distribution update and no   *)
(* track update (no call, push or pull request).                           *)

C2_SkipList ==
    \A i \in 1..Len(ros2_repos) :
        ros2_repos[i].name \in SKIPLIST =>
            /\ \A step \in LoopSteps : <<ros2_repos[i].name, step>> \notin acts
            /\ \A a \in track_args : a[1] # ros2_repos[i].name
            /\ ros2_repos[i] = repos0[i]
            /\ (\A j \in 1..Len(ros2_repos) :
                    ros2_repos[j].name \notin SKIPLIST => ros2_repos[j].url # ros2_repos[i].url)
               => \A b \in branches : b[1] # ros2_repos[i].url

\* A run that ended with exit code 0 over a manifest with a skipped entry
\* first and a processed entry after it.
C2_Witness ==
    /\ pc = "done" /\ exit_code = 0
    /\ Len(ros2_repos) = 2
    /\ ros2_repos[1].name \in SKIPLIST
    /\ <<ros2_repos[2].name, "tracks_pull">> \in acts

-----------------------------------------------------------------------------
(* C3. Manifest version invariant: once main is at the manifest publish    *)
(* step (so in every run that ends with exit code 0) every entry not on    *)
(* the skip-list has version = release name, and the ros2.repos pushed to  *)
(* the pull-request branch is that document.                               *)

C3_ManifestVersion ==
    /\ AtPublish =>
          \A i \in 1..Len(ros2_repos) :
              ros2_repos[i].name \notin SKIPLIST => ros2_repos[i].version = release_name
    /\ \A m \in pushed_manifest :
          /\ m.branch = ManifestBranch(release_name)
          /\ AsMapping(m.content) = AsMapping(ros2_repos)
          /\ \A i \in 1..Len(m.content) :
                m.content[i].name \notin SKIPLIST => m.content[i].version = release_name
    /\ (pc = "done" /\ exit_code = 0) => pushed_manifest # {}

\* A run that ended with exit code 0 over two processed entries.
C3_Witness ==
    /\ pc = "done" /\ exit_code = 0
    /\ Len(ros2_repos) = 2
    /\ \A i \in 1..2 : ros2_repos[i].name \notin SKIPLIST
    /\ pushed_manifest # {}

-----------------------------------------------------------------------------
(* C4. Cross-reference match rule: if some package's doc.url or source.url *)
(* (.git stripped) equals the entry's URL (.git stripped) and that package *)
(* does not have both doc and source with different URLs, the table maps   *)
(* the entry's name to the first such package and its release URL (or      *)
(* None); in particular for a package with only source, or only doc.       *)

C4_MatchRule ==
    TableBuilt =>
        \A i \in 1..Len(repos0) :
            LET eligible == { j \in 1..Len(dist0) :
                                UrlMatches(repos0[i], dist0[j]) /\ ~Disagree(dist0[j]) }
            IN  eligible # {} =>
                    LET first == CHOOSE j \in eligible : \A k \in eligible : j <= k
                    IN  /\ repos0[i].name \in DOMAIN ros2_key_to_distro_key
                        /\ ros2_key_to_distro_key[repos0[i].name]
                              = <<dist0[first].name, ReleaseOf(dist0[first])>>

-----------------------------------------------------------------------------
(* C5. Cross-reference mismatch exclusion: a package with both doc and     *)
(* source whose URLs differ is never recorded in the table, the mapper     *)
(* raises nothing, and a package is excluded with the warning only when    *)
(* both doc and source are present and their URLs differ.                  *)

C5_MismatchExclusion ==
    TableBuilt =>
        /\ \A n \in DOMAIN ros2_key_to_distro_key :
              ~Disagree(dist0[IndexOf(dist0, ros2_key_to_distro_key[n][1])])
        /\ (pc = "loop" /\ idx = 1) => error = ""
        /\ \A w \in warnings : Disagree(dist0[IndexOf(dist0, w[2])])

-----------------------------------------------------------------------------
(* C6. Missing reference, as claimed: the lookup error for an entry is     *)
(* raised before any source branch is created for that entry.              *)

C6_RaisedBeforeBranch ==
    error = KeyErrorTable =>
        <<ros2_repos[idx].url, <<release_name>>>> \notin branches

(* C6, amended. The lookup error is raised at step 3 for a non-skipped     *)
(* entry the table does not hold; it ends the run; when it is raised the   *)
(* entry's source branch is already pushed and its version set, and no     *)
(* distribution update and no track update has been made for the entry.    *)
(* No entry the table does not hold gets past step 3.                      *)

C6_State ==
    /\ error = KeyErrorTable =>
          LET name == ros2_repos[idx].name
          IN  /\ pc = "failed" /\ exit_code = 1
              /\ name \notin SKIPLIST
              /\ name \notin DOMAIN ros2_key_to_distro_key
              /\ <<ros2_repos[idx].url, <<release_name>>>> \in branches
              /\ ros2_repos[idx].version = release_name
              /\ \A step \in {"distribution", "tracks_push", "tracks_pull"} :
                    <<name, step>> \notin acts
              /\ \A a \in track_args : a[1] # name
              /\ pushed_manifest = {} /\ pushed_distribution = {}
    /\ \A a \in acts :
          a[2] \in {"distribution", "tracks_push", "tracks_pull"}
              => a[1] \in DOMAIN ros2_key_to_distro_key

\* With the entry's branch pushed and its version set, the step that follows
\* for an entry the table does not hold is the lookup error, and only that.
C6_Step ==
    /\ (pc = "step3" /\ ros2_repos[idx].name \notin DOMAIN ros2_key_to_distro_key)
          => (error' = KeyErrorTable /\ pc' = "failed")
    /\ (error = "" /\ error' = KeyErrorTable) => pc = "step3"
    /\ error = KeyErrorTable => UNCHANGED vars

C6_RaisedAfterBranch == []C6_State /\ [][C6_Step]_vars

\* The lookup error raised for the second entry of the manifest.
C6_Witness ==
    /\ error = KeyErrorTable
    /\ idx = 2
    /\ <<ros2_repos[1].name, "tracks_pull">> \in acts

-----------------------------------------------------------------------------
(* C7. No partial-failure recovery: an error ends the run at once (no step *)
(* follows it); the publish steps start only after every non-skipped entry *)
(* went through all its loop steps; the manifest pull request is opened    *)
(* before anything of the distribution is pushed; and no step ever removes *)
(* a pushed branch, a pushed file or a pull request.                       *)

C7_State ==
    /\ error # "" => pc = "failed" /\ exit_code = 1
    /\ (\E b \in branches : b[1] \in {ROS2_REPOS_URL, ROSDISTRO_URL}) =>
          \A i \in 1..Len(ros2_repos) :
              ros2_repos[i].name \notin SKIPLIST =>
                  \A step \in LoopSteps : <<ros2_repos[i].name, step>> \in acts
    /\ (\E b \in branches : b[1] = ROSDISTRO_URL) =>
          \E pr \in pulls : pr.head = ManifestBranch(release_name)
    /\ (\E pr \in pulls : pr.head = DistributionBranch(release_name)) =>
          pushed_distribution # {}

C7_Step ==
    /\ pc = "failed" => UNCHANGED vars
    /\ branches \subseteq branches'
    /\ pulls \subseteq pulls'
    /\ pushed_tracks \subseteq pushed_tracks'
    /\ pushed_manifest \subseteq pushed_manifest'
    /\ pushed_distribution \subseteq pushed_distribution'
    /\ acts \subseteq acts'

C7_NoRecovery == []C7_State /\ [][C7_Step]_vars

\* A run that failed in the publish steps, after branches were pushed and
\* pull requests opened.
C7_Witness ==
    /\ pc = "failed"
    /\ pulls # {}
    /\ \E b \in branches : b[1] = ROS2_REPOS_URL

-----------------------------------------------------------------------------
(* C8. update_distribution_yaml is idempotent, and a call changes nothing  *)
(* but the version of the doc and source sub-records of the one package:   *)
(* every other package, and the release sub-record, stay as they were.     *)

C8_Frame(old, new) ==
    /\ Len(new) = Len(old)
    /\ \A j \in 1..Len(old) :
          /\ new[j].name = old[j].name
          /\ new[j].release = old[j].release
          /\ old[j].name # upd_key => new[j] = old[j]
          /\ old[j].name = upd_key =>
                /\ new[j].doc = IF old[j].doc = None THEN None
                                ELSE Some([url |-> old[j].doc[1].url,
                                           version |-> release_name])
                /\ new[j].source = IF old[j].source = None THEN None
                                   ELSE Some([url |-> old[j].source[1].url,
                                              version |-> release_name])

C8_Idempotent ==
    /\ upd_n >= 1 => C8_Frame(dist0, distribution_yaml)
    /\ upd_n = 2 => distribution_yaml = upd_prev

\* Two calls made on a package that has doc, source and release, none of
\* them at the release name before.
C8_Witness ==
    /\ upd_n = 2
    /\ LET p == dist0[IndexOf(dist0, upd_key)]
       IN  /\ p.doc # None /\ p.source # None /\ p.release # None
           /\ p.doc[1].version # release_name
    /\ distribution_yaml # dist0

-----------------------------------------------------------------------------
(* C9. github_name_from_url, as claimed: https://github.com/A/B.git and    *)
(* https://github.com/A/B both give A/B, for every A and B; a URL that     *)
(* does not start with https://github.com/ raises.                         *)

C9_RoundTrip ==
    url_out # None =>
        /\ url_kind \in {"git", "plain"} =>
              /\ ~url_out[1].raised
              /\ url_out[1].value = url_owner \o <<"/">> \o url_repo
        /\ url_kind = "bad" => url_out[1].raised

(* C9, amended. https://github.com/A/B.git gives A/B for every A and B;    *)
(* https://github.com/A/B gives A/B when B does not itself end in .git,    *)
(* and A/B without that ending otherwise; a URL that does not start with   *)
(* the prefix raises.                                                      *)

C9_RoundTripUnlessDotGit ==
    url_out # None =>
        /\ url_kind = "git" =>
              /\ ~url_out[1].raised
              /\ url_out[1].value = url_owner \o <<"/">> \o url_repo
        /\ url_kind = "plain" =>
              /\ ~url_out[1].raised
              /\ url_out[1].value =
                    url_owner \o <<"/">> \o
                        (IF EndsWith(url_repo, DOT_GIT)
                         THEN SubSeq(url_repo, 1, Len(url_repo) - Len(DOT_GIT))
                         ELSE url_repo)
        /\ url_kind = "bad" => url_out[1].raised

\* The .git form of a name that ends in one of the letters of ".git".
C9_Witness ==
    /\ url_kind = "git"
    /\ url_out # None
    /\ url_repo = <<"a", "g", "i", "t">>
    /\ url_out[1].value = url_owner \o <<"/">> \o url_repo

-----------------------------------------------------------------------------
(* C10. update_tracks_yaml is only ever called with a release URL, never   *)
(* with the None the mapper records for a package without release.         *)

C10_TracksUrlPresent == \A a \in track_args : a[2] # None

====
